---- MODULE Spec2Model ----
(***************************************************************************)
(* Gesture recognition pipeline of air: the rule-based gesture classifier  *)
(* (src/src/core/gesture_detector.py, class GestureDetector).              *)
(*                                                                         *)
(* Numbers.  Landmark coordinates and the ratio thresholds are floats in   *)
(* the program; here they are integers counting hundredths (0.08 is 8,     *)
(* x = 0.3 is 30).  A Euclidean distance is kept as its square, and the    *)
(* normalized pinch distance n = d_tip / d_base as the pair of squares     *)
(* (num2, den2) with a kind: "fin" (den2 > 0), "inf" (x / 0.0, x > 0),     *)
(* "nan" (0.0 / 0.0), which is what numpy float64 division produces.       *)
(* Python's None is the string "None" for labels, the empty sequence for   *)
(* a landmark list, and the kind "None" for a float field.                 *)
(***************************************************************************)
EXTENDS Integers, Sequences, FiniteSets, TLC

VARIABLES
    current_landmarks,    \* self.current_landmarks
    previous_landmarks,   \* self.previous_landmarks
    last_pinch_distance,  \* self.last_pinch_distance
    pinch_state,          \* self.pinch_state
    pinch_frames,         \* self.pinch_frames
    last_gesture,         \* self.last_gesture
    gesture_cooldown,     \* self.gesture_cooldown
    gesture_thresholds,   \* self.gesture_thresholds
    result,               \* value returned by the latest call of update
    last_frame,           \* what the latest call of update was given
    since_event,          \* calls of update since one returned 'pinch' or 'spread'
    held_run,             \* frames with n below the pinch threshold since 'pinch',
                          \* all under the same thresholds (-1: no such run)
    camera_frame          \* what the latest camera frame held

vars == <<current_landmarks, previous_landmarks, last_pinch_distance,
          pinch_state, pinch_frames, last_gesture, gesture_cooldown,
          gesture_thresholds, result, last_frame, since_event, held_run,
          camera_frame>>

(***************************************************************************)
(* Bounds of the model.                                                    *)
(***************************************************************************)
MaxPinchFrames == 6     \* the hold-frame counter is explored up to here
MaxRun == 11            \* the two observation counters saturate above this

(***************************************************************************)
(* Values.                                                                 *)
(***************************************************************************)
None == "None"
NoLandmarks == <<>>
NoDistance == [k |-> "None", num2 |-> 0, den2 |-> 0]

Lm(x, y, z) == [t |-> "list", c |-> <<x, y, z>>]
NoneLm == [t |-> "None", c |-> <<>>]

\* current[i] with Python's 0-based index
At(current, i) == current[i + 1]

\* landmark[:2]; raises TypeError on an entry that is not subscriptable
Subscriptable(l) == l.t = "list"
XY(l) == SubSeq(l.c, 1, 2)

\* np.linalg.norm(a - b), squared
Norm2(a, b) == (a[1] - b[1]) * (a[1] - b[1]) + (a[2] - b[2]) * (a[2] - b[2])

\* current_distance / base_distance on numpy floats
Divide(num2, den2) ==
    IF den2 > 0 THEN [k |-> "fin", num2 |-> num2, den2 |-> den2]
    ELSE IF num2 > 0 THEN [k |-> "inf", num2 |-> num2, den2 |-> 0]
    ELSE [k |-> "nan", num2 |-> 0, den2 |-> 0]

\* n < th / 100 and n > th / 100 for a threshold th >= 0 in hundredths
Less(n, th) ==
    n.k = "fin" /\ 10000 * n.num2 < th * th * n.den2
Greater(n, th) ==
    \/ n.k = "inf"
    \/ n.k = "fin" /\ 10000 * n.num2 > th * th * n.den2

(***************************************************************************)
(* GestureDetector: the state as one record, and the methods as operators  *)
(* from a state to a state and a returned value.                           *)
(***************************************************************************)
Self ==
    [current_landmarks |-> current_landmarks,
     previous_landmarks |-> previous_landmarks,
     last_pinch_distance |-> last_pinch_distance,
     pinch_state |-> pinch_state,
     pinch_frames |-> pinch_frames,
     last_gesture |-> last_gesture,
     gesture_cooldown |-> gesture_cooldown,
     gesture_thresholds |-> gesture_thresholds]

\* __init__: the default thresholds, in hundredths (pinch_hold_frames in frames)
DefaultThresholds ==
    [pinch |-> 8, spread |-> 15, position |-> 20, min_distance_change |-> 2,
     pointing |-> 10, pinch_hold_frames |-> 5]

\* __init__: the screen regions, in hundredths
regions == [left |-> 30, right |-> 70, top |-> 30, bottom |-> 70]

\* detect_gesture: the cooldown armed after a pinch-stage gesture
CooldownFrames == 10

\* dict.update(new_thresholds)
DictUpdate(old, new) ==
    [key \in (DOMAIN old) \cup (DOMAIN new) |->
        IF key \in DOMAIN new THEN new[key] ELSE old[key]]

\* update_thresholds
update_thresholds(self, new_thresholds) ==
    [self EXCEPT !.gesture_thresholds = DictUpdate(@, new_thresholds)]

\* _reset_state: gesture_cooldown and last_gesture are not among the fields reset
reset_state(self) ==
    [self EXCEPT !.previous_landmarks = NoLandmarks,
                 !.last_pinch_distance = NoDistance,
                 !.current_landmarks = NoLandmarks,
                 !.pinch_state = FALSE,
                 !.pinch_frames = 0]

\* _detect_pinch_spread, lines 106-116: the normalized distance of a hand
\* whose landmarks 2, 4, 5 and 8 are subscriptable
NormalizedDistance(current) ==
    LET thumb_tip == XY(At(current, 4))
        index_tip == XY(At(current, 8))
        thumb_mcp == XY(At(current, 2))
        index_mcp == XY(At(current, 5))
    IN  Divide(Norm2(thumb_tip, index_tip), Norm2(thumb_mcp, index_mcp))

\* a mutant of BelowPinch: the wrong key of the thresholds is read
BelowPinchWrongKey(n, thresholds) == Less(n, thresholds["min_distance_change"])

\* _detect_pinch_spread, line 128: n below the pinch threshold
BelowPinch(n, thresholds) == Less(n, thresholds["pinch"])

\* _detect_pinch_spread, line 137: n above the spread threshold
AboveSpread(n, thresholds) == Greater(n, thresholds["spread"])

\* _detect_pinch_spread, line 135: the hold counter has reached the hold length
HoldReached(frames, thresholds) == frames >= thresholds["pinch_hold_frames"]

\* a mutant of BaselineMissing: the early return on the first distance is lost
BaselineCheckDropped(self) == FALSE

\* _detect_pinch_spread, line 119: no previous normalized distance is stored
BaselineMissing(self) == self.last_pinch_distance = NoDistance

\* _detect_pinch_spread
detect_pinch_spread(self, current) ==
    IF \E i \in {4, 8, 2, 5} : ~Subscriptable(At(current, i))
    THEN \* TypeError, caught at line 147
         [self |-> reset_state(self), ret |-> None]
    ELSE
    LET normalized_distance == NormalizedDistance(current)
        stored == [self EXCEPT !.last_pinch_distance = normalized_distance]
    IN  IF BaselineMissing(self)
        THEN [self |-> stored, ret |-> None]
        ELSE IF BelowPinch(normalized_distance, self.gesture_thresholds)
        THEN IF ~self.pinch_state
             THEN [self |-> [stored EXCEPT !.pinch_state = TRUE, !.pinch_frames = 0],
                   ret |-> "pinch"]
             ELSE [self |-> [stored EXCEPT !.pinch_frames = @ + 1],
                   ret |-> IF HoldReached(self.pinch_frames + 1, self.gesture_thresholds)
                           THEN "pinch_hold" ELSE None]
        ELSE IF AboveSpread(normalized_distance, self.gesture_thresholds)
        THEN [self |-> [stored EXCEPT !.pinch_state = FALSE, !.pinch_frames = 0],
              ret |-> "spread"]
        ELSE [self |-> [stored EXCEPT !.pinch_state = FALSE, !.pinch_frames = 0],
              ret |-> None]

\* _is_finger_extended
is_finger_extended(self, landmarks) ==
    IF \E i \in {5, 6, 8} : ~Subscriptable(At(landmarks, i))
    THEN FALSE  \* TypeError, caught at line 200
    ELSE
    LET mcp == XY(At(landmarks, 5))
        pip == XY(At(landmarks, 6))
        tip == XY(At(landmarks, 8))
        mcp_pip_dist2 == Norm2(pip, mcp)
        pip_tip_dist2 == Norm2(tip, pip)
        pointing == self.gesture_thresholds["pointing"]
    IN  10000 * pip_tip_dist2 > pointing * pointing * mcp_pip_dist2

\* a mutant of Band: the vertical bands are tested before the horizontal ones
BandVerticalFirst(x, y) ==
    IF y < regions.top THEN "nav_up"
    ELSE IF y > regions.bottom THEN "nav_down"
    ELSE IF x < regions.left THEN "nav_left"
    ELSE IF x > regions.right THEN "nav_right"
    ELSE None

\* a mutant of Band: the top band returns a label outside the vocabulary
BandMislabelled(x, y) ==
    IF x < regions.left THEN "nav_left"
    ELSE IF x > regions.right THEN "nav_right"
    ELSE IF y < regions.top THEN "nav_top"
    ELSE IF y > regions.bottom THEN "nav_down"
    ELSE None

\* _detect_pointing, lines 170-177: the bands in the order they are tested
Band(x, y) ==
    IF x < regions.left THEN "nav_left"
    ELSE IF x > regions.right THEN "nav_right"
    ELSE IF y < regions.top THEN "nav_up"
    ELSE IF y > regions.bottom THEN "nav_down"
    ELSE None

\* _detect_pointing
detect_pointing(self, current) ==
    IF is_finger_extended(self, current)
    THEN LET index_tip == At(current, 8)
         IN  Band(index_tip.c[1], index_tip.c[2])
    ELSE None

\* detect_gesture, line 79: a returned label is truthy, None is not
Truthy(gesture) == gesture # None

\* a mutant of detect_gesture: the pointing stage is consulted first
detect_gesture_pointing_first(self) ==
    LET current == self.current_landmarks IN
    IF current = NoLandmarks \/ Len(current) < 21
    THEN [self |-> self, ret |-> None]
    ELSE
    LET p == detect_pinch_spread(self, current)
        pointing_gesture == detect_pointing(p.self, current)
    IN  IF Truthy(pointing_gesture)
        THEN [self |-> [p.self EXCEPT !.last_gesture = pointing_gesture],
              ret |-> pointing_gesture]
        ELSE IF Truthy(p.ret)
        THEN [self |-> [p.self EXCEPT !.last_gesture = p.ret,
                                      !.gesture_cooldown = CooldownFrames],
              ret |-> p.ret]
        ELSE [self |-> p.self, ret |-> None]

\* detect_gesture
detect_gesture(self) ==
    LET current == self.current_landmarks IN
    IF current = NoLandmarks \/ Len(current) < 21
    THEN [self |-> self, ret |-> None]
    ELSE
    LET p == detect_pinch_spread(self, current)
        pointing_gesture == detect_pointing(p.self, current)
    IN  IF Truthy(p.ret)
        THEN [self |-> [p.self EXCEPT !.last_gesture = p.ret,
                                      !.gesture_cooldown = CooldownFrames],
              ret |-> p.ret]
        ELSE IF Truthy(pointing_gesture)
        THEN [self |-> [p.self EXCEPT !.last_gesture = pointing_gesture],
              ret |-> pointing_gesture]
        ELSE [self |-> p.self, ret |-> None]

\* mutants of InCooldown: the comparison is off by one, either way
InCooldownAboveOne(cooldown) == cooldown > 1
InCooldownAtZero(cooldown) == cooldown >= 0

\* update, line 59: a cooldown is running
InCooldown(cooldown) == cooldown > 0

\* a mutant of Decrement: the decremented value is not written back
DecrementDropped(cooldown) == cooldown

\* update, line 60: one frame of the cooldown has passed
Decrement(cooldown) == cooldown - 1

\* update; landmarks is the frame's list of hands
update(self, landmarks) ==
    IF landmarks = <<>>
    THEN [self |-> reset_state(self), ret |-> None]
    ELSE
    LET current == landmarks[1]
        shifted == [self EXCEPT !.previous_landmarks = self.current_landmarks,
                                !.current_landmarks = current]
    IN  IF InCooldown(self.gesture_cooldown)
        THEN [self |-> [shifted EXCEPT !.gesture_cooldown = Decrement(@)],
              ret |-> None]
        ELSE detect_gesture(shifted)

(***************************************************************************)
(* The frames fed to update.  A hand is the 21-landmark list find_hands    *)
(* builds (hand_tracker.py line 31); only landmarks 2, 4, 5, 6 and 8 are   *)
(* read by the classifier, the others rest at the frame centre.            *)
(***************************************************************************)
Centre == Lm(50, 50, 0)

Hand(thumb_mcp, thumb_tip, index_mcp, index_pip, index_tip) ==
    [i \in 1..21 |->
        CASE i = 3 -> thumb_mcp
          [] i = 5 -> thumb_tip
          [] i = 6 -> index_mcp
          [] i = 7 -> index_pip
          [] i = 9 -> index_tip
          [] OTHER -> Centre]

\* knuckles 0.4 apart, so a thumb tip dx hundredths from the index tip
\* gives n = dx / 40: 2 is n = 0.05, 4 is n = 0.1, 36 is n = 0.9
ThumbMcp == Lm(30, 60, 0)
IndexMcp == Lm(70, 60, 0)
TipOffsets == {2, 4, 36}

\* index fingertip positions: in the left and bottom bands, in the right and
\* top bands, in the top band, in the bottom band, in no band
Tips == {<<10, 90>>, <<90, 10>>, <<50, 10>>, <<50, 90>>, <<50, 50>>}

ThumbTipAt(tip, dx) ==
    IF tip[1] <= 50 THEN Lm(tip[1] + dx, tip[2], 0) ELSE Lm(tip[1] - dx, tip[2], 0)

\* index finger extended (the PIP joint sits next to the knuckle): n in the
\* middle range at every fingertip position, every n at the first one
ExtendedHands ==
    {Hand(ThumbMcp, ThumbTipAt(tip, 4), IndexMcp, Lm(70, 58, 0), Lm(tip[1], tip[2], 0)) :
        tip \in Tips}
    \cup
    {Hand(ThumbMcp, ThumbTipAt(<<10, 90>>, dx), IndexMcp, Lm(70, 58, 0), Lm(10, 90, 0)) :
        dx \in TipOffsets}

\* index finger curled: the fingertip rests on the PIP joint
CurledHands ==
    {Hand(ThumbMcp, ThumbTipAt(<<10, 90>>, dx), IndexMcp, Lm(10, 90, 0), Lm(10, 90, 0)) :
        dx \in TipOffsets}

\* thumb base and index base coincide (d_base = 0), with d_tip > 0 and d_tip = 0
DegenerateHands ==
    {Hand(IndexMcp, Lm(50 + dx, 50, 0), IndexMcp, Lm(70, 58, 0), Lm(50, 50, 0)) :
        dx \in {0, 4}}

\* malformed hands: 20 landmarks only; a thumb tip that is None
ShortHand == [i \in 1..20 |-> Centre]
NoneThumbHand == Hand(ThumbMcp, NoneLm, IndexMcp, Lm(70, 58, 0), Lm(10, 90, 0))
MalformedHands == {ShortHand, NoneThumbHand}

Hands == ExtendedHands \cup CurledHands \cup DegenerateHands \cup MalformedHands

\* no hand, one hand, or two hands (find_hands tracks up to two)
Frames ==
    {<<>>} \cup {<<h>> : h \in Hands} \cup {<<h, ShortHand>> : h \in DegenerateHands}

\* the dictionaries passed to update_thresholds: the 'gestures' section of the
\* application's settings, whose keys are not the ones the classifier reads,
\* and the same with a shorter hold length
ConfigGestures ==
    [swipe_threshold |-> 30, pinch_threshold |-> 15, rotation_threshold |-> 3000,
     min_distance_change |-> 2, pointing_threshold |-> 10]
ThresholdUpdates ==
    {ConfigGestures, DictUpdate(ConfigGestures, [pinch_hold_frames |-> 3])}

(***************************************************************************)
(* The state machine.                                                      *)
(***************************************************************************)
Min(a, b) == IF a < b THEN a ELSE b

\* a hand of 21 landmarks whose landmarks read by the classifier are triples
WellFormed(hand) ==
    /\ Len(hand) = 21
    /\ \A i \in {2, 4, 5, 6, 8} : Subscriptable(At(hand, i))

\* the frame carries a well-formed hand with n below the pinch threshold
FrameBelowPinch(landmarks, thresholds) ==
    /\ landmarks # <<>>
    /\ WellFormed(landmarks[1])
    /\ Less(NormalizedDistance(landmarks[1]), thresholds["pinch"])

Init ==
    /\ current_landmarks = NoLandmarks
    /\ previous_landmarks = NoLandmarks
    /\ last_pinch_distance = NoDistance
    /\ pinch_state = FALSE
    /\ pinch_frames = 0
    /\ last_gesture = None
    /\ gesture_cooldown = 0
    /\ gesture_thresholds = DefaultThresholds
    /\ result = None
    /\ last_frame = "none"
    /\ since_event = MaxRun + 1
    /\ held_run = -1
    /\ camera_frame = "none"

Install(self) ==
    /\ current_landmarks' = self.current_landmarks
    /\ previous_landmarks' = self.previous_landmarks
    /\ last_pinch_distance' = self.last_pinch_distance
    /\ pinch_state' = self.pinch_state
    /\ pinch_frames' = self.pinch_frames
    /\ last_gesture' = self.last_gesture
    /\ gesture_cooldown' = self.gesture_cooldown
    /\ gesture_thresholds' = self.gesture_thresholds

Update(landmarks) ==
    LET r == update(Self, landmarks) IN
    /\ r.self.pinch_frames <= MaxPinchFrames
    /\ Install(r.self)
    /\ result' = r.ret
    /\ last_frame' = IF landmarks = <<>> THEN "empty" ELSE "hand"
    /\ since_event' = IF r.ret \in {"pinch", "spread"} THEN 0
                      ELSE Min(since_event + 1, MaxRun + 1)
    /\ held_run' = IF r.ret = "pinch" THEN 0
                   ELSE IF held_run >= 0 /\ FrameBelowPinch(landmarks, gesture_thresholds)
                   THEN Min(held_run + 1, MaxRun + 1)
                   ELSE -1
    /\ camera_frame' = IF landmarks = <<>> THEN "empty" ELSE "hand"

\* process_frame of main.py outside painting mode: the classifier sees the
\* landmarks of a camera frame only when there are some
ProcessFrame(landmarks) ==
    IF landmarks # <<>>
    THEN Update(landmarks)
    ELSE /\ camera_frame' = "empty"
         /\ UNCHANGED <<current_landmarks, previous_landmarks,
                        last_pinch_distance, pinch_state, pinch_frames,
                        last_gesture, gesture_cooldown, gesture_thresholds,
                        result, last_frame, since_event, held_run>>

UpdateThresholds(new_thresholds) ==
    /\ Install(update_thresholds(Self, new_thresholds))
    /\ held_run' = IF gesture_thresholds' = gesture_thresholds THEN held_run ELSE -1
    /\ UNCHANGED <<result, last_frame, since_event, camera_frame>>

(***************************************************************************)
(* The landmark smoother (src/src/core/hand_tracker.py, class HandTracker). *)
(* A tracker coordinate is an integer counting 1/Grain of a raw unit, so    *)
(* that the blend with smoothing_factor = 1/2 is exact for as many frames   *)
(* in a row as the model explores, as it is for the program's floats.       *)
(***************************************************************************)
VARIABLES
    tracker_previous_landmarks,  \* HandTracker.previous_landmarks
    all_landmarks,               \* the hands find_hands returned last
    multi_hand_landmarks,        \* the hands the detector reported for that frame
    smooth_run,                  \* frames with a hand since the cache was empty
    cached_before,               \* hands the cache held when that frame came
    smooth_call                  \* the latest direct call of _smooth_landmarks

tracker_vars == <<tracker_previous_landmarks, all_landmarks,
                  multi_hand_landmarks, smooth_run, cached_before,
                  smooth_call>>

MaxSmoothRun == 3       \* frames with a hand in a row

\* self.smoothing_factor = 0.5
smoothing_factor == [num |-> 1, den |-> 2]

Grain == smoothing_factor.den ^ MaxSmoothRun

\* a mutant of Blend: the previous frame's share is left out
BlendCurrentOnly(current, previous) ==
    (current * (smoothing_factor.den - smoothing_factor.num))
        \div smoothing_factor.den

\* current * (1 - smoothing_factor) + previous * smoothing_factor
Blend(current, previous) ==
    (current * (smoothing_factor.den - smoothing_factor.num)
        + previous * smoothing_factor.num) \div smoothing_factor.den

\* _smooth_landmarks
smooth_landmarks(current, previous) ==
    IF previous = <<>>
    THEN current
    ELSE [i \in 1..Len(current) |->
            Lm(Blend(current[i].c[1], previous[i].c[1]),
               Blend(current[i].c[2], previous[i].c[2]),
               Blend(current[i].c[3], previous[i].c[3]))]

\* a mutant of SmoothedHand: every hand is blended with the first cached hand
SmoothedAgainstFirst(previous_hands, hand_idx, current) ==
    IF Len(previous_hands) > hand_idx
    THEN smooth_landmarks(current, previous_hands[1])
    ELSE current

\* find_hands, lines 34-38: the hand at hand_idx (from 0) after smoothing
SmoothedHand(previous_hands, hand_idx, current) ==
    IF Len(previous_hands) > hand_idx
    THEN smooth_landmarks(current, previous_hands[hand_idx + 1])
    ELSE current

\* a mutant of find_hands: a frame without hands leaves the cache alone
find_hands_keeping_cache(previous_hands, detection) ==
    LET all == [k \in 1..Len(detection) |->
                    SmoothedHand(previous_hands, k - 1, detection[k])]
    IN  IF detection # <<>>
        THEN [previous_landmarks |-> all, ret |-> all]
        ELSE [previous_landmarks |-> previous_hands, ret |-> all]

\* find_hands, lines 26-49: the cache afterwards and the hands returned
find_hands(previous_hands, detection) ==
    LET all == [k \in 1..Len(detection) |->
                    SmoothedHand(previous_hands, k - 1, detection[k])]
    IN  IF detection # <<>>
        THEN [previous_landmarks |-> all, ret |-> all]
        ELSE [previous_landmarks |-> <<>>, ret |-> all]

\* line 31: the 21 landmarks of a detected hand, in raw units
RawHand(a) ==
    [i \in 1..21 |-> Lm(a * Grain, (i % 3) * Grain, ((a + i) % 2) * Grain)]

RawHands == {RawHand(a) : a \in {0, 1}}

\* results.multi_hand_landmarks: no hand, one hand or two (max_hands = 2)
Detections ==
    {<<>>} \cup {<<h>> : h \in RawHands}
           \cup {<<h1, h2>> : h1 \in RawHands, h2 \in RawHands}

TrackerInit ==
    /\ tracker_previous_landmarks = <<>>
    /\ all_landmarks = <<>>
    /\ multi_hand_landmarks = <<>>
    /\ smooth_run = 0
    /\ cached_before = 0
    /\ smooth_call = [current |-> <<>>, previous |-> <<>>, ret |-> <<>>]

\* one call of find_hands on a frame in which the detector reports detection
FindHands(detection) ==
    /\ detection # <<>> => smooth_run < MaxSmoothRun
    /\ LET r == find_hands(tracker_previous_landmarks, detection) IN
        /\ tracker_previous_landmarks' = r.previous_landmarks
        /\ all_landmarks' = r.ret
    /\ multi_hand_landmarks' = detection
    /\ smooth_run' = IF detection = <<>> THEN 0 ELSE smooth_run + 1
    /\ cached_before' = Len(tracker_previous_landmarks)
    /\ UNCHANGED smooth_call

\* one direct call of _smooth_landmarks
SmoothLandmarks(current, previous) ==
    /\ smooth_call' = [current |-> current, previous |-> previous,
                       ret |-> smooth_landmarks(current, previous)]
    /\ UNCHANGED <<tracker_previous_landmarks, all_landmarks,
                   multi_hand_landmarks, smooth_run, cached_before>>

(***************************************************************************)
(* The template matcher (src/src/utils/gesture_recorder.py, class          *)
(* GestureRecorder).  A frame is a pair of coordinates in tenths; a        *)
(* gesture is a sequence of frames.  recorded_gestures is a dict: here the *)
(* sequence of its items in insertion order, which is the order            *)
(* compare_gesture visits them in.  A cost is the final cell over the sum  *)
(* of the lengths, kept as the pair (num, den), or float('inf').           *)
(***************************************************************************)
VARIABLES
    recording,           \* self.recording
    current_gesture,     \* self.current_gesture
    gesture_name,        \* self.gesture_name
    recorded_gestures,   \* self.recorded_gestures
    gesture_files,       \* save_dir: the content of <name>.json, per name
                         \* a gesture is saved under
    saved_gestures,      \* per name, the recording stop_recording saved last
    constructed,         \* the outcome of GestureRecorder(), when it is the
                         \* latest operation: "ok" or the exception raised
    compared,            \* the call of compare_gesture, when it is the latest
    stopped              \* what stop_recording returned, when it is the
                         \* latest call: "True" or "False"

recorder_vars == <<recording, current_gesture, gesture_name,
                   recorded_gestures, gesture_files, saved_gestures,
                   constructed, compared, stopped>>

MaxFrames == 2          \* frames in one recording

Abs(x) == IF x < 0 THEN -x ELSE x

\* np.linalg.norm(np.array(a) - np.array(b)) for two frames whose distance is
\* a whole number of tenths
FrameDistance(a, b) ==
    LET dx == a[1] - b[1]
        dy == a[2] - b[2]
    IN  CHOOSE r \in 0..(Abs(dx) + Abs(dy)) : r * r = dx * dx + dy * dy

\* float('inf')
Infinity == [k |-> "inf", num |-> 0, den |-> 1]

\* a < b for two costs
CostLess(a, b) ==
    /\ a.k = "fin"
    /\ b.k = "inf" \/ a.num * b.den < b.num * a.den

\* a mutant of calculate_gesture_distance: an empty recording costs nothing
calculate_gesture_distance_empty_zero(current, recorded) ==
    IF Len(recorded) = 0
    THEN [k |-> "fin", num |-> 0, den |-> 1]
    ELSE [k |-> "fin",
          num |-> FrameDistance(current[Len(current)], recorded[Len(recorded)]),
          den |-> Len(current) + Len(recorded)]

\* _calculate_gesture_distance: dtw_matrix[i, j] is assigned the distance of
\* frame i and frame j alone (line 88), so the final cell is the distance of
\* the two last frames
calculate_gesture_distance(current, recorded) ==
    IF Len(recorded) = 0
    THEN Infinity
    ELSE [k |-> "fin",
          num |-> FrameDistance(current[Len(current)], recorded[Len(recorded)]),
          den |-> Len(current) + Len(recorded)]

\* threshold = 0.3, in tenths
threshold == [k |-> "fin", num |-> 3, den |-> 1]

\* lines 65-72 of compare_gesture: the state of the loop after the first n items
BestAfter(current, gestures, n) ==
    LET Step[i \in 0..n] ==
            IF i = 0
            THEN [best_match |-> None, min_distance |-> Infinity]
            ELSE LET distance == calculate_gesture_distance(
                                     current, gestures[i].landmarks)
                 IN  IF CostLess(distance, Step[i - 1].min_distance)
                     THEN [best_match |-> gestures[i].name,
                           min_distance |-> distance]
                     ELSE Step[i - 1]
    IN  Step[n]

\* a mutant of WithinThreshold: a minimum equal to the threshold matches too
WithinThresholdInclusive(min_distance) == ~CostLess(threshold, min_distance)

\* line 76: min_distance < threshold
WithinThreshold(min_distance) == CostLess(min_distance, threshold)

\* compare_gesture
compare_gesture(current, gestures) ==
    IF current = <<>>
    THEN None
    ELSE LET best == BestAfter(current, gestures, Len(gestures))
         IN  IF WithinThreshold(best.min_distance) THEN best.best_match ELSE None

\* self.recorded_gestures[name] = landmarks
\* a mutant of DictSet: every template stored gets the new landmarks
DictSetAll(gestures, name, landmarks) ==
    IF \E i \in 1..Len(gestures) : gestures[i].name = name
    THEN [i \in 1..Len(gestures) |->
            [name |-> gestures[i].name, landmarks |-> landmarks]]
    ELSE Append([i \in 1..Len(gestures) |->
                    [name |-> gestures[i].name, landmarks |-> landmarks]],
                [name |-> name, landmarks |-> landmarks])

DictSet(gestures, name, landmarks) ==
    IF \E i \in 1..Len(gestures) : gestures[i].name = name
    THEN [i \in 1..Len(gestures) |->
            IF gestures[i].name = name
            THEN [name |-> name, landmarks |-> landmarks]
            ELSE gestures[i]]
    ELSE Append(gestures, [name |-> name, landmarks |-> landmarks])

\* frames: (0, 0), (0.6, 0) and (0.6, 0.8), at distances 0.6, 1.0 and 0.8
FrameA == <<0, 0>>
FrameD == <<6, 0>>
FrameC == <<6, 8>>
RecordedFrames == {FrameA, FrameD}
GestureNames == {"wave", "circle"}
Queries == {<<>>, <<FrameA>>, <<FrameC>>, <<FrameD, FrameD>>}

\* JSON text, by its structure: a number and an array
JsonNumber(x) == [tok |-> "num", v |-> x]
JsonArray(items) == [tok |-> "arr", items |-> items]

\* json.dump of a gesture, a list of frames that are lists of floats
json_dump(gesture) ==
    JsonArray([i \in 1..Len(gesture) |->
        JsonArray([j \in 1..Len(gesture[i]) |-> JsonNumber(gesture[i][j])])])

\* a mutant of json_load: the frames come back in reverse order
json_load_reversed(text) ==
    [i \in 1..Len(text.items) |->
        LET frame == text.items[Len(text.items) + 1 - i] IN
        [j \in 1..Len(frame.items) |-> frame.items[j].v]]

\* json.load of such a text
json_load(text) ==
    [i \in 1..Len(text.items) |->
        [j \in 1..Len(text.items[i].items) |-> text.items[i].items[j].v]]

\* a file of save_dir: absent, not JSON, or the JSON of a gesture_data dict
\* (its 'timestamp' is never read back and is left out)
NoFile == [exists |-> FALSE, valid |-> FALSE, name |-> None,
           landmarks |-> JsonArray(<<>>)]
CorruptFile == [exists |-> TRUE, valid |-> FALSE, name |-> None,
                landmarks |-> JsonArray(<<>>)]
GestureFile(name, gesture) ==
    [exists |-> TRUE, valid |-> TRUE, name |-> name,
     landmarks |-> json_dump(gesture)]

\* the files save_dir can hold: one per gesture name, and one that another
\* program left there, which GestureRecorder() finds absent, not JSON, or
\* holding a gesture without frames
ForeignName == "other"
FileNames == GestureNames \cup {ForeignName}
ForeignContents == {NoFile, CorruptFile, GestureFile(ForeignName, <<>>)}

\* save_dir with the foreign file
SaveDir(files, foreign) ==
    [n \in FileNames |-> IF n = ForeignName THEN foreign ELSE files[n]]

\* os.listdir(save_dir): the file names in an arbitrary order
ListDirs ==
    {order \in [1..Cardinality(FileNames) -> FileNames] :
        \A i, j \in 1..Cardinality(FileNames) : order[i] = order[j] => i = j}

\* load_recorded_gestures on an empty dict: the dict afterwards and the
\* exception that ended the loop, if any
load_recorded_gestures(files, order) ==
    LET Step[i \in 0..Len(order)] ==
            IF i = 0
            THEN [recorded_gestures |-> <<>>, raised |-> None]
            ELSE LET file == files[order[i]] IN
                 IF Step[i - 1].raised # None \/ ~file.exists
                 THEN Step[i - 1]
                 ELSE IF ~file.valid
                 THEN [Step[i - 1] EXCEPT !.raised = "JSONDecodeError"]
                 ELSE [Step[i - 1] EXCEPT !.recorded_gestures =
                          DictSet(@, file.name, json_load(file.landmarks))]
    IN  Step[Len(order)]

NotCompared == [called |-> FALSE, query |-> <<>>, distances |-> <<>>,
                ret |-> None]

\* GestureRecorder() on a save_dir that does not exist yet
RecorderInit ==
    /\ recording = FALSE
    /\ current_gesture = <<>>
    /\ gesture_name = None
    /\ recorded_gestures = <<>>
    /\ gesture_files = [n \in GestureNames |-> NoFile]
    /\ saved_gestures = [n \in GestureNames |-> <<>>]
    /\ constructed = "ok"
    /\ compared = NotCompared
    /\ stopped = None

\* GestureRecorder() on a save_dir that holds the foreign file only
RecorderInitBeside(foreign) ==
    LET loaded == load_recorded_gestures(
                      SaveDir([n \in GestureNames |-> NoFile], foreign),
                      <<ForeignName>>)
    IN
    /\ recording = FALSE
    /\ current_gesture = <<>>
    /\ gesture_name = None
    /\ recorded_gestures = loaded.recorded_gestures
    /\ gesture_files = [n \in GestureNames |-> NoFile]
    /\ saved_gestures = [n \in GestureNames |-> <<>>]
    /\ constructed = IF loaded.raised = None THEN "ok" ELSE loaded.raised
    /\ compared = NotCompared
    /\ stopped = None

\* a recorder exists: the latest GestureRecorder() did not raise
Constructed == constructed # "JSONDecodeError"

\* GestureRecorder() on save_dir, with the foreign file as found and the
\* directory listed in the given order
Construct(order, foreign) ==
    LET loaded == load_recorded_gestures(SaveDir(gesture_files, foreign), order)
    IN
    /\ recording' = FALSE
    /\ current_gesture' = <<>>
    /\ gesture_name' = None
    /\ recorded_gestures' = loaded.recorded_gestures
    /\ constructed' = IF loaded.raised = None THEN "ok" ELSE loaded.raised
    /\ compared' = NotCompared
    /\ stopped' = None
    /\ UNCHANGED <<gesture_files, saved_gestures>>

StartRecording(name) ==
    /\ Constructed
    /\ recording' = TRUE
    /\ current_gesture' = <<>>
    /\ gesture_name' = name
    /\ compared' = NotCompared
    /\ stopped' = None
    /\ constructed' = None
    /\ UNCHANGED <<recorded_gestures, gesture_files, saved_gestures>>

\* add_frame; an empty landmark list is not appended
AddFrame(landmarks) ==
    /\ Constructed
    /\ Len(current_gesture) < MaxFrames
    /\ current_gesture' = IF recording /\ landmarks # <<>>
                          THEN Append(current_gesture, landmarks)
                          ELSE current_gesture
    /\ compared' = NotCompared
    /\ stopped' = None
    /\ constructed' = None
    /\ UNCHANGED <<recording, gesture_name, recorded_gestures, gesture_files,
                   saved_gestures>>

\* stop_recording, with save_gesture
StopRecording ==
    /\ Constructed
    /\ IF recording /\ Len(current_gesture) > 0
       THEN /\ recorded_gestures' =
                    DictSet(recorded_gestures, gesture_name, current_gesture)
            /\ gesture_files' =
                    [gesture_files EXCEPT ![gesture_name] =
                        GestureFile(gesture_name, current_gesture)]
            /\ saved_gestures' =
                    [saved_gestures EXCEPT ![gesture_name] = current_gesture]
            /\ recording' = FALSE
            /\ stopped' = "True"
       ELSE /\ stopped' = "False"
            /\ UNCHANGED <<recorded_gestures, gesture_files, saved_gestures,
                           recording>>
    /\ compared' = NotCompared
    /\ constructed' = None
    /\ UNCHANGED <<current_gesture, gesture_name>>

CompareGesture(current) ==
    /\ Constructed
    /\ compared' =
        [called |-> TRUE,
         query |-> current,
         distances |->
            IF current = <<>>
            THEN <<>>
            ELSE [i \in 1..Len(recorded_gestures) |->
                    calculate_gesture_distance(
                        current, recorded_gestures[i].landmarks)],
         ret |-> compare_gesture(current, recorded_gestures)]
    /\ stopped' = None
    /\ constructed' = None
    /\ UNCHANGED <<recording, current_gesture, gesture_name,
                   recorded_gestures, gesture_files, saved_gestures>>

(***************************************************************************)
(* The performance controller (src/src/utils/optimizer.py, class           *)
(* PerformanceOptimizer).  Times are whole milliseconds; frame_scale is in *)
(* hundredths; current_fps and avg_processing_time are kept as the sum and *)
(* the length of the window they were computed from.  A frame is its width *)
(* and height.  The clock is not kept: elapsed is what time.time() minus   *)
(* last_frame_time will be when the next call starts.                      *)
(***************************************************************************)
VARIABLES
    frame_times,             \* self.frame_times, a deque of maxlen 30
    processing_times,        \* self.processing_times, a deque of maxlen 30
    elapsed,                 \* time since self.last_frame_time
    target_fps,              \* self.target_fps
    frame_scale,             \* self.frame_scale
    skip_frames,             \* self.skip_frames
    frame_count,             \* self.frame_count
    output_width,            \* self.output_width
    output_height,           \* self.output_height
    use_gpu,                 \* self.use_gpu (gpu_frame is set with it)
    current_fps,             \* self.current_fps
    avg_processing_time,     \* self.avg_processing_time
    quality_check_counter,   \* self.quality_check_counter
    load,                    \* how fast frames arrive and are processed now
    starts,                  \* calls of start() so far
    returned,                \* the latest call of optimize_frame: the frame it
                             \* returned and the path it took
    adjusted,                \* whether that call ran the quality adjustment,
                             \* and skip_frames and frame_scale before it
    processing_lock,         \* self.processing_lock: the context holding it
    pc,                      \* where each calling context is in optimize_frame
    read_count,              \* the frame_count each context read at line 69
    completed                \* calls of optimize_frame that left the region

optimizer_vars == <<frame_times, processing_times, elapsed, target_fps,
                    frame_scale, skip_frames, frame_count, output_width,
                    output_height, use_gpu, current_fps, avg_processing_time, quality_check_counter,
                    load, starts, returned, adjusted, processing_lock, pc,
                    read_count, completed>>

lock_vars == <<processing_lock, pc, read_count, completed>>

MaxFrameCount == 30     \* calls of optimize_frame explored
MaxStarts == 1          \* calls of start() explored
MaxSteadyFrames == 140  \* calls of optimize_frame explored under a steady load

\* deque(maxlen=30)
maxlen == 30
min_scale == 40
max_scale == 100
quality_adjustment_threshold == 5
MaxSkipFrames == 2

\* deque.append with maxlen
DequeAppend(window, x) ==
    IF Len(window) < maxlen THEN Append(window, x)
    ELSE Append(Tail(window), x)

Sum(window) ==
    LET S[i \in 0..Len(window)] == IF i = 0 THEN 0 ELSE S[i - 1] + window[i]
    IN  S[Len(window)]

Max(a, b) == IF a > b THEN a ELSE b

Frame(width, height) == [width |-> width, height |-> height]

\* cv2.resize(frame, (width, height)): cv2.error unless both are positive
Resize(frame, width, height) ==
    IF width > 0 /\ height > 0
    THEN [raised |-> None, frame |-> Frame(width, height)]
    ELSE [raised |-> "cv2.error", frame |-> frame]

\* a mutant of ensure_output_size: the frame is handed on as it is
ensure_output_size_as_is(frame, width, height) == frame

\* _ensure_output_size
ensure_output_size(frame, width, height) ==
    IF frame.width # width \/ frame.height # height
    THEN Resize(frame, width, height).frame
    ELSE frame

\* _process_frame_cpu: int(frame.shape * self.frame_scale)
process_frame_cpu(scale, frame) ==
    IF scale # 100
    THEN Resize(frame, (frame.width * scale) \div 100,
                       (frame.height * scale) \div 100)
    ELSE [raised |-> None, frame |-> frame]

\* _process_frame with _process_frame_gpu: the frame handed on and use_gpu
\* afterwards; gpu is what the GPU calls do on this frame: "ok", "cv2.error"
\* or another exception
\* by is the path that produced the frame handed on: "gpu", "cpu", or
\* "handler" when the handler of _process_frame returned the frame it was given
process_frame(scale, gpu_enabled, gpu, frame) ==
    LET cpu == process_frame_cpu(scale, frame)
        by_cpu == IF cpu.raised = None THEN "cpu" ELSE "handler"
    IN
    IF gpu_enabled /\ gpu = "ok"
    THEN [frame |-> cpu.frame, use_gpu |-> TRUE,
          by |-> IF cpu.raised = None THEN "gpu" ELSE "handler"]
    ELSE IF gpu_enabled /\ gpu = "cv2.error"
    THEN [frame |-> cpu.frame, use_gpu |-> FALSE, by |-> by_cpu]
    ELSE IF gpu_enabled
    THEN [frame |-> frame, use_gpu |-> TRUE, by |-> "handler"]
    ELSE [frame |-> cpu.frame, use_gpu |-> FALSE, by |-> by_cpu]

\* a mutant of decrease_quality: the scale goes first
decrease_quality_scale_first(scale, skip, amount) ==
    IF scale > min_scale
    THEN [frame_scale |-> Max(min_scale, scale - amount), skip_frames |-> skip]
    ELSE IF skip < MaxSkipFrames
    THEN [frame_scale |-> scale, skip_frames |-> skip + 1]
    ELSE [frame_scale |-> scale, skip_frames |-> skip]

\* _decrease_quality
decrease_quality(scale, skip, amount) ==
    IF skip < MaxSkipFrames
    THEN [frame_scale |-> scale, skip_frames |-> skip + 1]
    ELSE IF scale > min_scale
    THEN [frame_scale |-> Max(min_scale, scale - amount), skip_frames |-> skip]
    ELSE [frame_scale |-> scale, skip_frames |-> skip]

\* a mutant of increase_quality: the scale is not clamped
increase_quality_unclamped(scale, skip, amount) ==
    IF skip > 0
    THEN [frame_scale |-> scale, skip_frames |-> skip - 1]
    ELSE IF scale < max_scale
    THEN [frame_scale |-> scale + amount, skip_frames |-> skip]
    ELSE [frame_scale |-> scale, skip_frames |-> skip]

\* _increase_quality
increase_quality(scale, skip, amount) ==
    IF skip > 0
    THEN [frame_scale |-> scale, skip_frames |-> skip - 1]
    ELSE IF scale < max_scale
    THEN [frame_scale |-> Min(max_scale, scale + amount), skip_frames |-> skip]
    ELSE [frame_scale |-> scale, skip_frames |-> skip]

\* fps_ratio = current_fps / target_fps against a bound in tenths, where
\* current_fps = 1000 * len / sum for a window in milliseconds
RatioBelow(fps, target, tenths) ==
    10000 * fps.len < tenths * target * fps.sum
RatioAbove(fps, target, tenths) ==
    10000 * fps.len > tenths * target * fps.sum

\* avg_processing_time < 1.0 / (target_fps * 1.2)
Headroom(avg, target) ==
    IF avg.len = 0 THEN TRUE
    ELSE 12 * target * avg.sum < 10000 * avg.len

\* a mutant of dynamic_quality_adjustment: no dead band around the target
dynamic_quality_adjustment_no_band(fps, avg, target, scale, skip) ==
    IF RatioBelow(fps, target, 6) THEN decrease_quality(scale, skip, 15)
    ELSE IF RatioBelow(fps, target, 10) THEN decrease_quality(scale, skip, 10)
    ELSE IF Headroom(avg, target) THEN increase_quality(scale, skip, 10)
    ELSE [frame_scale |-> scale, skip_frames |-> skip]

\* _dynamic_quality_adjustment
dynamic_quality_adjustment(fps, avg, target, scale, skip) ==
    IF RatioBelow(fps, target, 6) THEN decrease_quality(scale, skip, 15)
    ELSE IF RatioBelow(fps, target, 8) THEN decrease_quality(scale, skip, 10)
    ELSE IF RatioAbove(fps, target, 12) /\ Headroom(avg, target)
    THEN increase_quality(scale, skip, 10)
    ELSE [frame_scale |-> scale, skip_frames |-> skip]

\* a mutant of Skipped: every frame but the first of skip_frames + 1 is kept
SkippedInverted(skip, count) == skip > 0 /\ count % (skip + 1) = 0

\* line 70: the frame with this count is skipped
Skipped(skip, count) == skip > 0 /\ count % (skip + 1) # 0

\* the time between two calls, the wait for processing_lock (another context
\* is inside) and the time the processing takes
Load(idle, wait, work) == [idle |-> idle, wait |-> wait, work |-> work]
Loads ==
    {Load(5, 0, 5),     \* 100 frames a second
     Load(5, 30, 5),    \* the same behind a contended lock
     Load(28, 0, 5),    \* 30 a second
     Load(40, 0, 5),    \* 22 a second
     Load(60, 0, 6),    \* 15 a second
     Load(0, 0, 0)}     \* calls within one tick of the clock

\* performance.frame_scale of the configuration, which no rule validates
ConfiguredScales == {95, 45, 150}

CameraFrames == {Frame(640, 480), Frame(1280, 720), Frame(1, 1)}
GpuOutcomes == {"ok", "cv2.error", "error"}

NotReturned ==
    [path |-> None, frame |-> Frame(0, 0), input |-> Frame(0, 0),
     gpu |-> None, by |-> None]

NotAdjusted == [ran |-> FALSE, skip_frames |-> 0, frame_scale |-> 0]

\* the execution contexts that call optimize_frame
Contexts == {1, 2}
NoHolder == 0

\* Lock() at line 16, and nobody inside optimize_frame
LockInit ==
    /\ processing_lock = NoHolder
    /\ pc = [c \in Contexts |-> "idle"]
    /\ read_count = [c \in Contexts |-> 0]
    /\ completed = 0

OptimizerInit ==
    /\ frame_times = <<>>
    /\ processing_times = <<>>
    /\ elapsed = 0
    /\ target_fps = 30
    /\ frame_scale \in ConfiguredScales
    /\ skip_frames = 0
    /\ frame_count = 0
    /\ output_width = 640
    /\ output_height = 480
    /\ use_gpu = FALSE
    /\ current_fps = [len |-> 0, sum |-> 1]
    /\ avg_processing_time = [len |-> 0, sum |-> 0]
    /\ quality_check_counter = 0
    /\ load \in Loads
    /\ starts = 0
    /\ returned = NotReturned
    /\ adjusted = NotAdjusted
    /\ LockInit

\* start(), after which frames arrive under the given load
Start(new_load) ==
    /\ starts < MaxStarts
    /\ starts' = starts + 1
    /\ frame_times' = <<>>
    /\ processing_times' = <<>>
    /\ elapsed' = new_load.idle
    /\ load' = new_load
    /\ UNCHANGED <<target_fps, frame_scale, skip_frames, frame_count,
                   output_width, output_height, use_gpu, current_fps,
                   avg_processing_time, quality_check_counter, returned,
                   adjusted, lock_vars>>

\* the sizes a camera is configured with
OutputSizes == {Frame(640, 480), Frame(320, 240)}

\* set_output_size
SetOutputSize(width, height) ==
    /\ output_width' = width
    /\ output_height' = height
    /\ UNCHANGED <<frame_times, processing_times, elapsed, target_fps,
                   frame_scale, skip_frames, frame_count, use_gpu,
                   current_fps, avg_processing_time, quality_check_counter,
                   load, starts, returned, adjusted, lock_vars>>

\* a mutant of OptimizeSkipped: the time of a skipped frame is not part of
\* the next interval
OptimizeSkippedUntimed(frame) ==
    /\ returned' = [path |-> "skipped",
                    frame |-> ensure_output_size(frame, output_width,
                                                 output_height),
                    input |-> frame, gpu |-> None, by |-> None]
    /\ adjusted' = NotAdjusted
    /\ elapsed' = load.idle
    /\ UNCHANGED <<frame_times, processing_times, target_fps, frame_scale,
                   skip_frames, use_gpu, current_fps, avg_processing_time,
                   quality_check_counter, load, starts>>

\* a mutant of OptimizeSkipped: a skipped frame counts towards the cadence
OptimizeSkippedCounting(frame) ==
    /\ returned' = [path |-> "skipped",
                    frame |-> ensure_output_size(frame, output_width,
                                                 output_height),
                    input |-> frame, gpu |-> None, by |-> None]
    /\ adjusted' = NotAdjusted
    /\ elapsed' = elapsed + load.idle
    /\ quality_check_counter' =
            (quality_check_counter + 1) % quality_adjustment_threshold
    /\ UNCHANGED <<frame_times, processing_times, target_fps, frame_scale,
                   skip_frames, use_gpu, current_fps, avg_processing_time,
                   load, starts>>

\* optimize_frame on a skipped frame
OptimizeSkipped(frame) ==
    /\ returned' = [path |-> "skipped",
                    frame |-> ensure_output_size(frame, output_width,
                                                 output_height),
                    input |-> frame, gpu |-> None, by |-> None]
    /\ adjusted' = NotAdjusted
    /\ elapsed' = elapsed + load.idle
    /\ UNCHANGED <<frame_times, processing_times, target_fps, frame_scale,
                   skip_frames, use_gpu, current_fps, avg_processing_time,
                   quality_check_counter, load, starts>>

\* optimize_frame on a frame that is not skipped
OptimizeProcessed(frame, gpu) ==
    LET processed == process_frame(frame_scale, use_gpu, gpu, frame)
        times == DequeAppend(frame_times, elapsed + load.work)
        ptimes == DequeAppend(processing_times, load.wait + load.work)
        fps == [len |-> Len(times), sum |-> Sum(times)]
        avg == [len |-> Len(ptimes), sum |-> Sum(ptimes)]
    IN
    /\ use_gpu' = processed.use_gpu
    /\ frame_times' = times
    /\ processing_times' = ptimes
    /\ elapsed' = load.idle
    /\ IF fps.sum = 0
       THEN \* ZeroDivisionError at line 151, handled at line 87
            /\ returned' = [path |-> "error",
                            frame |-> ensure_output_size(frame,
                                            output_width, output_height),
                            input |-> frame,
                            gpu |-> IF use_gpu THEN gpu ELSE None,
                            by |-> processed.by]
            /\ adjusted' = NotAdjusted
            /\ UNCHANGED <<current_fps, avg_processing_time,
                           quality_check_counter, frame_scale, skip_frames>>
       ELSE /\ current_fps' = fps
            /\ avg_processing_time' = avg
            /\ IF quality_check_counter + 1 >= quality_adjustment_threshold
               THEN LET q == dynamic_quality_adjustment(
                                fps, avg, target_fps, frame_scale, skip_frames)
                    IN  /\ frame_scale' = q.frame_scale
                        /\ skip_frames' = q.skip_frames
                        /\ quality_check_counter' = 0
                        /\ adjusted' = [ran |-> TRUE,
                                        skip_frames |-> skip_frames,
                                        frame_scale |-> frame_scale]
               ELSE /\ quality_check_counter' = quality_check_counter + 1
                    /\ adjusted' = NotAdjusted
                    /\ UNCHANGED <<frame_scale, skip_frames>>
            /\ returned' = [path |-> "processed",
                            frame |-> ensure_output_size(processed.frame,
                                            output_width, output_height),
                            input |-> frame,
                            gpu |-> IF use_gpu THEN gpu ELSE None,
                            by |-> processed.by]
    /\ UNCHANGED <<target_fps, load, starts>>

\* lines 69-89, with the frame_count that line 69 read
OptimizeFrameAt(count, frame, gpu) ==
    /\ frame_count' = count + 1
    /\ UNCHANGED <<output_width, output_height>>
    /\ IF Skipped(skip_frames, count + 1)
       THEN OptimizeSkipped(frame)
       ELSE OptimizeProcessed(frame, gpu)

\* optimize_frame called from one context
OptimizeFrame(frame, gpu) ==
    /\ frame_count < MaxFrameCount
    /\ OptimizeFrameAt(frame_count, frame, gpu)
    /\ UNCHANGED lock_vars

\* a mutant of LockFree: the lock is never seen as held
LockFreeAlways(holder) == TRUE

\* Lock.acquire succeeds
LockFree(holder) == holder = NoHolder

controller_vars == <<frame_times, processing_times, elapsed, target_fps,
                     frame_scale, skip_frames, frame_count, output_width,
                     output_height, use_gpu, current_fps,
                     avg_processing_time, quality_check_counter, load, starts,
                     returned, adjusted>>

\* optimize_frame in steps, for calls from several contexts.
\* line 64: the call starts
Call(c) ==
    /\ pc[c] = "idle"
    /\ frame_count < MaxFrameCount
    /\ pc' = [pc EXCEPT ![c] = "entering"]
    /\ UNCHANGED <<controller_vars, processing_lock, read_count, completed>>

\* line 67: the context gets processing_lock; line 69 reads frame_count
Acquire(c) ==
    /\ pc[c] = "entering"
    /\ LockFree(processing_lock)
    /\ processing_lock' = c
    /\ read_count' = [read_count EXCEPT ![c] = frame_count]
    /\ pc' = [pc EXCEPT ![c] = "inside"]
    /\ UNCHANGED <<controller_vars, completed>>

\* lines 69-89: frame_count is written and the rest of the region runs; the
\* with statement releases the lock on every way out
Leave(c, frame) ==
    /\ pc[c] = "inside"
    /\ OptimizeFrameAt(read_count[c], frame, "ok")
    /\ processing_lock' = NoHolder
    /\ pc' = [pc EXCEPT ![c] = "idle"]
    /\ completed' = completed + 1
    /\ UNCHANGED read_count

(***************************************************************************)
(* The configuration (src/src/config/config_manager.py, class              *)
(* ConfigManager): the numeric settings that the controller and the        *)
(* classifier read at construction.  target_fps is a whole number,         *)
(* frame_scale and pinch_threshold are in hundredths.                      *)
(***************************************************************************)
VARIABLES
    settings,          \* self.settings, the three settings followed here
    config_outcome     \* the latest update_settings or load_settings: what
                       \* it was given and whether it was taken over

config_vars == <<settings, config_outcome>>

Knobs == {"target_fps", "frame_scale", "pinch_threshold"}

\* a key that a settings file or an update does not hold
Absent == -1000

\* self.validation_rules: performance.frame_scale has no rule
validator(key, x) ==
    IF key = "target_fps" THEN 1 <= x /\ x <= 120
    ELSE IF key = "pinch_threshold" THEN 0 < x /\ x < 100
    ELSE TRUE

\* validate_settings: TRUE, or FALSE for ConfigValidationError
validate_settings(given) ==
    \A key \in Knobs : given[key] # Absent => validator(key, given[key])

\* _update_nested_dict
update_nested_dict(d, u) ==
    [key \in Knobs |-> IF u[key] # Absent THEN u[key] ELSE d[key]]

\* what a settings file or a caller can hold for each setting
Offered(key) ==
    IF key = "target_fps" THEN {30, 60, 0, 500}
    ELSE IF key = "frame_scale" THEN {100, 50, 150, 30}
    ELSE {15, 8, 0, 100}

SettingsFiles ==
    {[target_fps |-> a, frame_scale |-> b, pinch_threshold |-> c] :
        a \in Offered("target_fps") \cup {Absent},
        b \in Offered("frame_scale") \cup {Absent},
        c \in Offered("pinch_threshold") \cup {Absent}}

NoOutcome == [op |-> None, given |-> [key \in Knobs |-> Absent],
              accepted |-> FALSE]

\* the defaults of __init__, with no settings file
ConfigInit ==
    /\ settings = [target_fps |-> 30, frame_scale |-> 100,
                   pinch_threshold |-> 15]
    /\ config_outcome = NoOutcome

\* update_settings(category, key, value)
UpdateSettings(key, value) ==
    LET temp_settings == [k \in Knobs |-> IF k = key THEN value ELSE Absent]
        ok == validate_settings(temp_settings)
    IN  /\ settings' = IF ok THEN [settings EXCEPT ![key] = value]
                       ELSE settings
        /\ config_outcome' = [op |-> "update_settings",
                              given |-> temp_settings, accepted |-> ok]

\* load_settings on a settings file that holds loaded_settings
LoadSettings(loaded_settings) ==
    LET ok == validate_settings(loaded_settings)
    IN  /\ settings' = IF ok THEN update_nested_dict(settings, loaded_settings)
                       ELSE settings
        /\ config_outcome' = [op |-> "load_settings",
                              given |-> loaded_settings, accepted |-> ok]

(***************************************************************************)
(* Specifications: one per component, the other components at rest.        *)
(***************************************************************************)
all_vars == <<vars, tracker_vars, recorder_vars, optimizer_vars, config_vars>>

\* PerformanceOptimizer() with its defaults
OptimizerAtRest ==
    /\ frame_times = <<>>
    /\ processing_times = <<>>
    /\ elapsed = 0
    /\ target_fps = 30
    /\ frame_scale = 100
    /\ skip_frames = 0
    /\ frame_count = 0
    /\ output_width = 640
    /\ output_height = 480
    /\ use_gpu = FALSE
    /\ current_fps = [len |-> 0, sum |-> 1]
    /\ avg_processing_time = [len |-> 0, sum |-> 0]
    /\ quality_check_counter = 0
    /\ load = Load(28, 0, 5)
    /\ starts = 0
    /\ returned = NotReturned
    /\ adjusted = NotAdjusted
    /\ LockInit

SystemInit == Init /\ TrackerInit /\ ConfigInit /\ RecorderInit /\ OptimizerAtRest

\* the classifier alone
Next ==
    \/ \E landmarks \in Frames :
            Update(landmarks) /\ UNCHANGED <<tracker_vars, recorder_vars, optimizer_vars,
                              config_vars>>
    \/ \E new_thresholds \in ThresholdUpdates :
            UpdateThresholds(new_thresholds)
                /\ UNCHANGED <<tracker_vars, recorder_vars, optimizer_vars,
                              config_vars>>

Spec == SystemInit /\ [][Next]_all_vars

\* the smoother alone
TrackerNext ==
    \/ \E detection \in Detections :
            FindHands(detection) /\ UNCHANGED <<vars, recorder_vars, optimizer_vars,
                              config_vars>>
    \/ \E current \in RawHands, previous \in RawHands \cup {<<>>} :
            SmoothLandmarks(current, previous)
                /\ UNCHANGED <<vars, recorder_vars, optimizer_vars,
                              config_vars>>

SpecTracker == SystemInit /\ [][TrackerNext]_all_vars

\* the matcher alone, constructed beside a foreign file that is absent or
\* holds a gesture without frames
MatcherInit ==
    /\ Init /\ TrackerInit /\ ConfigInit /\ OptimizerAtRest
    /\ \E foreign \in {NoFile, GestureFile(ForeignName, <<>>)} :
            RecorderInitBeside(foreign)

RecorderNext ==
    \/ \E name \in GestureNames :
            StartRecording(name) /\ UNCHANGED <<vars, tracker_vars, optimizer_vars,
                              config_vars>>
    \/ \E landmarks \in RecordedFrames \cup {<<>>} :
            AddFrame(landmarks) /\ UNCHANGED <<vars, tracker_vars, optimizer_vars,
                              config_vars>>
    \/ StopRecording /\ UNCHANGED <<vars, tracker_vars, optimizer_vars,
                              config_vars>>
    \/ \E current \in Queries :
            CompareGesture(current) /\ UNCHANGED <<vars, tracker_vars, optimizer_vars,
                              config_vars>>

SpecRecorder == MatcherInit /\ [][RecorderNext]_all_vars

\* the template storage alone: recording sessions and restarts of the
\* program, which find the foreign file absent or not JSON
StorageNext ==
    \/ \E name \in GestureNames :
            StartRecording(name) /\ UNCHANGED <<vars, tracker_vars, optimizer_vars,
                              config_vars>>
    \/ \E landmarks \in RecordedFrames \cup {<<>>} :
            AddFrame(landmarks) /\ UNCHANGED <<vars, tracker_vars, optimizer_vars,
                              config_vars>>
    \/ StopRecording /\ UNCHANGED <<vars, tracker_vars, optimizer_vars,
                              config_vars>>
    \/ \E order \in ListDirs, foreign \in {NoFile, CorruptFile} :
            Construct(order, foreign) /\ UNCHANGED <<vars, tracker_vars, optimizer_vars,
                              config_vars>>

SpecStorage == SystemInit /\ [][StorageNext]_all_vars

\* the controller alone
ControllerInit == Init /\ TrackerInit /\ ConfigInit /\ RecorderInit /\ OptimizerInit

OptimizerNext ==
    \/ \E new_load \in Loads :
            Start(new_load) /\ UNCHANGED <<vars, tracker_vars, recorder_vars,
                              config_vars>>
    \/ OptimizeFrame(Frame(1280, 720), "ok")
            /\ UNCHANGED <<vars, tracker_vars, recorder_vars,
                              config_vars>>

SpecOptimizer == ControllerInit /\ [][OptimizerNext]_all_vars

\* the frames handed on, under a load that makes the controller skip and one
\* that makes the metrics fail
OutputInit ==
    /\ Init /\ TrackerInit /\ ConfigInit /\ RecorderInit /\ OptimizerInit
    /\ frame_scale = 45
    /\ load \in {Load(60, 0, 6), Load(0, 0, 0)}

OutputNext ==
    \/ \E size \in OutputSizes :
            SetOutputSize(size.width, size.height)
                /\ UNCHANGED <<vars, tracker_vars, recorder_vars,
                              config_vars>>
    \/ \E frame \in CameraFrames :
            OptimizeFrame(frame, "ok")
                /\ UNCHANGED <<vars, tracker_vars, recorder_vars,
                              config_vars>>

SpecOutput == OutputInit /\ [][OutputNext]_all_vars

\* optimize_frame called from two contexts, under a load that makes the
\* controller skip frames
LockedInit ==
    /\ Init /\ TrackerInit /\ ConfigInit /\ RecorderInit /\ OptimizerInit
    /\ frame_scale = 95
    /\ load \in {Load(60, 0, 6), Load(5, 30, 5)}

LockedNext ==
    \/ \E c \in Contexts :
            Call(c) /\ UNCHANGED <<vars, tracker_vars, recorder_vars,
                              config_vars>>
    \/ \E c \in Contexts :
            Acquire(c) /\ UNCHANGED <<vars, tracker_vars, recorder_vars,
                              config_vars>>
    \/ \E c \in Contexts :
            Leave(c, Frame(1280, 720))
                /\ UNCHANGED <<vars, tracker_vars, recorder_vars,
                              config_vars>>

SpecLock == LockedInit /\ [][LockedNext]_all_vars

\* the controller with GPU acceleration enabled at construction
\* (performance.enable_gpu and a CUDA device), whose GPU calls may fail
GpuInit ==
    /\ Init /\ TrackerInit /\ ConfigInit /\ RecorderInit
    /\ frame_times = <<>>
    /\ processing_times = <<>>
    /\ elapsed = 0
    /\ target_fps = 30
    /\ frame_scale \in {100, 45}
    /\ skip_frames = 0
    /\ frame_count = 0
    /\ output_width = 640
    /\ output_height = 480
    /\ use_gpu = TRUE
    /\ current_fps = [len |-> 0, sum |-> 1]
    /\ avg_processing_time = [len |-> 0, sum |-> 0]
    /\ quality_check_counter = 0
    /\ load \in {Load(60, 0, 6), Load(0, 0, 0)}
    /\ starts = 0
    /\ returned = NotReturned
    /\ adjusted = NotAdjusted
    /\ LockInit

GpuNext ==
    \/ \E new_load \in {Load(60, 0, 6), Load(0, 0, 0)} :
            Start(new_load)
                /\ UNCHANGED <<vars, tracker_vars, recorder_vars,
                               config_vars>>
    \/ \E frame \in CameraFrames, gpu \in GpuOutcomes :
            OptimizeFrame(frame, gpu)
                /\ UNCHANGED <<vars, tracker_vars, recorder_vars,
                               config_vars>>

SpecGpu == GpuInit /\ [][GpuNext]_all_vars

\* frames arriving at a steady rate of 29, 20 or 15 a second, none above the
\* target of 30, and processed in no time
SteadyLoads == {Load(34, 0, 0), Load(50, 0, 0), Load(67, 0, 0)}

SteadyInit ==
    /\ Init /\ TrackerInit /\ ConfigInit /\ RecorderInit
    /\ frame_times = <<>>
    /\ processing_times = <<>>
    /\ load \in SteadyLoads
    /\ elapsed = load.idle
    /\ target_fps = 30
    /\ frame_scale \in ConfiguredScales
    /\ skip_frames = 0
    /\ frame_count = 0
    /\ output_width = 640
    /\ output_height = 480
    /\ use_gpu = FALSE
    /\ current_fps = [len |-> 0, sum |-> 1]
    /\ avg_processing_time = [len |-> 0, sum |-> 0]
    /\ quality_check_counter = 0
    /\ starts = 0
    /\ returned = NotReturned
    /\ adjusted = NotAdjusted
    /\ LockInit

SteadyNext ==
    /\ frame_count < MaxSteadyFrames
    /\ OptimizeFrameAt(frame_count, Frame(1280, 720), "ok")
    /\ UNCHANGED <<lock_vars, vars, tracker_vars, recorder_vars, config_vars>>

\* the timer of the frame loop keeps delivering frames
SpecSteady ==
    SteadyInit /\ [][SteadyNext]_all_vars /\ WF_all_vars(SteadyNext)

\* the frame loop of the application
LoopNext ==
    \E landmarks \in Frames :
        ProcessFrame(landmarks)
            /\ UNCHANGED <<tracker_vars, recorder_vars, optimizer_vars,
                           config_vars>>

SpecLoop == SystemInit /\ [][LoopNext]_all_vars

\* the configuration alone
ConfigNext ==
    \/ \E key \in Knobs : \E value \in Offered(key) :
            UpdateSettings(key, value)
                /\ UNCHANGED <<vars, tracker_vars, recorder_vars,
                               optimizer_vars>>
    \/ \E loaded_settings \in SettingsFiles :
            LoadSettings(loaded_settings)
                /\ UNCHANGED <<vars, tracker_vars, recorder_vars,
                               optimizer_vars>>

SpecConfig == SystemInit /\ [][ConfigNext]_all_vars

(***************************************************************************)
(* Properties of the classifier.                                           *)
(***************************************************************************)
PinchStageLabels == {"pinch", "spread", "pinch_hold"}
NavLabels == {"nav_left", "nav_right", "nav_up", "nav_down"}

\* a step of update (update_thresholds changes the thresholds or nothing)
UpdateStep == gesture_thresholds' = gesture_thresholds

\* a step of update on a frame with a hand
HandStep == UpdateStep /\ last_frame' = "hand"

\* a step in which update runs detect_gesture on a well-formed hand
EvaluatedStep ==
    /\ HandStep
    /\ gesture_cooldown = 0
    /\ current_landmarks' # NoLandmarks
    /\ WellFormed(current_landmarks')

\* the hands of the example: n = 0.9 and n = 0.05, finger curled
HandN090 == Hand(ThumbMcp, Lm(46, 90, 0), IndexMcp, Lm(10, 90, 0), Lm(10, 90, 0))
HandN005 == Hand(ThumbMcp, Lm(12, 90, 0), IndexMcp, Lm(10, 90, 0), Lm(10, 90, 0))

\* C1: after update returns 'pinch' or 'spread', each of the next 10 calls of
\* update returns no gesture, whatever the frames carry.
C1_CooldownSilence == since_event \in 1..10 => result = None

\* C1 witness: the tenth call after the event was given a hand pinching inside
\* a navigation band, and returned nothing.
C1_Witness ==
    /\ since_event = 10
    /\ last_frame = "hand"
    /\ result = None
    /\ FrameBelowPinch(<<current_landmarks>>, gesture_thresholds)
    /\ is_finger_extended(Self, current_landmarks)

\* the step is the first evaluation of a hand since construction or a reset
BaselineStep == EvaluatedStep /\ last_pinch_distance = NoDistance

\* C2 (as stated): when update evaluates a hand while no previous normalized
\* distance is stored, it stores n and returns no gesture at all, wherever
\* the index fingertip is.
C2_BaselineSilent ==
    [][BaselineStep =>
          /\ last_pinch_distance' = NormalizedDistance(current_landmarks')
          /\ result' = None]_vars

\* C2 (amended): on such a frame update stores n and returns none of 'pinch',
\* 'spread' and 'pinch_hold', leaving the held flag, the hold counter and the
\* cooldown alone; it returns a nav_* label or nothing, and nothing when the
\* fingertip is in no band.
C2_BaselineNoPinchStageEvent ==
    [][BaselineStep =>
          /\ last_pinch_distance' = NormalizedDistance(current_landmarks')
          /\ result' \in NavLabels \cup {None}
          /\ (LET tip == At(current_landmarks', 8).c
              IN  tip[1] \in 30..70 /\ tip[2] \in 30..70 => result' = None)
          /\ pinch_state' = pinch_state
          /\ pinch_frames' = pinch_frames
          /\ gesture_cooldown' = 0]_vars

\* C2 witness: the first hand after construction or a reset pinches with the
\* finger extended in the left band; n is stored and 'nav_left' is returned.
C2_Witness ==
    /\ previous_landmarks = NoLandmarks
    /\ current_landmarks # NoLandmarks
    /\ FrameBelowPinch(<<current_landmarks>>, gesture_thresholds)
    /\ last_pinch_distance = NormalizedDistance(current_landmarks)
    /\ result = "nav_left"
    /\ gesture_cooldown = 0

\* a fresh classifier that has been fed one frame with n = 0.9
FreshAfterN090 ==
    /\ previous_landmarks = NoLandmarks
    /\ current_landmarks = HandN090
    /\ last_pinch_distance = NormalizedDistance(HandN090)
    /\ last_gesture = None
    /\ since_event > MaxRun

\* C3: with a baseline stored, the cooldown at zero and pinch not held, a hand
\* whose n is below the pinch threshold makes update return 'pinch', set the
\* held flag and zero the hold counter; a fresh classifier fed n = 0.9 and then
\* n = 0.05 returns 'pinch' on the second frame.
C3_PinchOnThreshold ==
    [][/\ (/\ EvaluatedStep
           /\ last_pinch_distance # NoDistance
           /\ ~pinch_state
           /\ Less(NormalizedDistance(current_landmarks'), gesture_thresholds["pinch"])
           => result' = "pinch" /\ pinch_state' /\ pinch_frames' = 0)
       /\ (FreshAfterN090 /\ HandStep /\ current_landmarks' = HandN005
           => result' = "pinch")]_vars

\* C3 witness: the fresh classifier's second frame, n = 0.05 after n = 0.9.
C3_Witness ==
    /\ previous_landmarks = HandN090
    /\ current_landmarks = HandN005
    /\ result = "pinch"
    /\ pinch_state
    /\ pinch_frames = 0
    /\ since_event = 0
    /\ last_gesture = "pinch"

\* C4: from the frame that returned 'pinch', with every later frame carrying
\* a hand with n below the pinch threshold, 'pinch_hold' is first returned on
\* the pinch_hold_frames-th frame and on none before it.
C4_FirstHoldAtHoldFrames ==
    held_run \in 1..gesture_thresholds["pinch_hold_frames"] =>
        (result = "pinch_hold" <=> held_run = gesture_thresholds["pinch_hold_frames"])

\* C5: once the hold counter has reached pinch_hold_frames, every frame with
\* a hand whose n is below the pinch threshold returns 'pinch_hold'.
C5_HoldRepeats ==
    [][/\ HandStep
       /\ pinch_state
       /\ pinch_frames >= gesture_thresholds["pinch_hold_frames"]
       /\ FrameBelowPinch(<<current_landmarks'>>, gesture_thresholds)
       => result' = "pinch_hold"]_vars

\* C6: the cooldown is armed by an update that returns 'pinch' or 'spread' and
\* by no other outcome.
C6_OnlyPinchSpreadArm ==
    [][/\ (UpdateStep /\ result' \in {"pinch", "spread"}
           => gesture_cooldown' = 10)
       /\ (gesture_cooldown' > gesture_cooldown
           => result' \in {"pinch", "spread"})]_vars

\* C7: update with an empty hand list returns no gesture and leaves every
\* field of the classifier state at its initial value.
C7_EmptyFrameResetsAll ==
    last_frame = "empty" =>
        /\ result = None
        /\ previous_landmarks = NoLandmarks
        /\ current_landmarks = NoLandmarks
        /\ last_pinch_distance = NoDistance
        /\ ~pinch_state
        /\ pinch_frames = 0
        /\ gesture_cooldown = 0
        /\ last_gesture = None

\* C8: pinch_frames and gesture_cooldown are never negative.
C8_CountersNonNegative == pinch_frames >= 0 /\ gesture_cooldown >= 0

\* C8 witness: the cooldown armed by a 'pinch_hold' has run down to zero, the
\* last of its frames on a malformed hand, with the hold counter above zero.
C8_Witness ==
    /\ gesture_cooldown = 0
    /\ last_gesture = "pinch_hold"
    /\ pinch_frames > 0
    /\ last_frame = "hand"
    /\ current_landmarks = ShortHand

C10_BandOrder ==
    [][/\ EvaluatedStep
       /\ result' \notin PinchStageLabels
       /\ is_finger_extended(Self, current_landmarks')
       => LET x == At(current_landmarks', 8).c[1]
              y == At(current_landmarks', 8).c[2]
          IN  /\ x < 30 => result' = "nav_left"
              /\ x > 70 => result' = "nav_right"
              /\ x \in 30..70 /\ y < 30 => result' = "nav_up"
              /\ x \in 30..70 /\ y > 70 => result' = "nav_down"
              /\ x \in 30..70 /\ y \in 30..70 => result' = None]_vars

\* C10 witness: a fingertip at x = 0.1, y = 0.9, in the left and the bottom
\* band, gave 'nav_left'.
C10_Witness ==
    /\ result = "nav_left"
    /\ last_frame = "hand"
    /\ current_landmarks # NoLandmarks
    /\ At(current_landmarks, 8).c = <<10, 90, 0>>
    /\ is_finger_extended(Self, current_landmarks)
    /\ since_event > 10

\* what the pinch/spread stage yields on a well-formed hand, from the state
\* before the frame: the stored distance, the held flag and the hold counter
StageEvent(hand) ==
    LET n == NormalizedDistance(hand)
        below == Less(n, gesture_thresholds["pinch"])
        above == Greater(n, gesture_thresholds["spread"])
    IN  IF last_pinch_distance = NoDistance THEN None
        ELSE IF below /\ ~pinch_state THEN "pinch"
        ELSE IF below /\ pinch_frames + 1 >= gesture_thresholds["pinch_hold_frames"]
        THEN "pinch_hold"
        ELSE IF ~below /\ above THEN "spread"
        ELSE None

\* C11: whenever the pinch/spread stage produces a label, update returns that
\* label even with the index finger extended inside a navigation band; a
\* nav_* label is returned only when the pinch/spread stage produced no event.
C11_PinchStageFirst ==
    [][EvaluatedStep =>
          /\ StageEvent(current_landmarks') # None
                => result' = StageEvent(current_landmarks')
          /\ result' \in NavLabels
                => StageEvent(current_landmarks') = None]_vars

\* C11 witness: 'spread' was returned for a hand whose index finger is
\* extended with its tip in the left band.
C11_Witness ==
    /\ result = "spread"
    /\ since_event = 0
    /\ current_landmarks # NoLandmarks
    /\ is_finger_extended(Self, current_landmarks)
    /\ At(current_landmarks, 8).c[1] < 30

\* C12: a hand whose thumb base (2) and index base (5) coincide in (x, y), so
\* that d_base = 0, yields no gesture from the pinch/spread stage, whatever
\* d_tip and the state are.
C12_ZeroBaseSilent ==
    [][/\ EvaluatedStep
       /\ XY(At(current_landmarks', 2)) = XY(At(current_landmarks', 5))
       => result' \notin PinchStageLabels]_vars

\* a step of update on a malformed hand: short, or with an entry that is no
\* triple (the exception handler then clears current_landmarks)
MalformedStep ==
    /\ HandStep
    /\ current_landmarks' = NoLandmarks \/ ~WellFormed(current_landmarks')

\* C13: update on a malformed hand returns no gesture and leaves the stored
\* distance, the held flag, the hold counter and the cooldown as they were.
C13_MalformedLeavesState ==
    [][MalformedStep =>
          /\ result' = None
          /\ last_pinch_distance' = last_pinch_distance
          /\ pinch_state' = pinch_state
          /\ pinch_frames' = pinch_frames
          /\ gesture_cooldown' = gesture_cooldown]_vars

\* C14: every value update returns is no gesture or one of the seven labels.
C14_ClosedVocabulary ==
    result \in {None, "pinch", "pinch_hold", "spread",
                "nav_left", "nav_right", "nav_up", "nav_down"}

\* C14 witness: update returned the label of the top band on a frame where
\* the pinch/spread stage had a stored distance to compare with.
C14_Witness ==
    /\ result = "nav_up"
    /\ last_frame = "hand"
    /\ last_pinch_distance # NoDistance

(***************************************************************************)
(* Properties of the smoother.                                             *)
(***************************************************************************)
\* a step of find_hands (a direct call of _smooth_landmarks changes smooth_call
\* or nothing)
FindHandsStep == smooth_call' = smooth_call

\* C15: for every hand of the frame the output is, per coordinate,
\* current * 0.5 + previous * 0.5 when the cache held a hand at that index
\* before the frame, and the detected hand unchanged otherwise.
C15_SmoothedOutput ==
    [][FindHandsStep =>
        /\ Len(all_landmarks') = Len(multi_hand_landmarks')
        /\ \A k \in 1..Len(multi_hand_landmarks') :
            IF Len(tracker_previous_landmarks) >= k
            THEN /\ Len(all_landmarks'[k]) = 21
                 /\ \A i \in 1..21, j \in 1..3 :
                        2 * all_landmarks'[k][i].c[j]
                            = multi_hand_landmarks'[k][i].c[j]
                              + tracker_previous_landmarks[k][i].c[j]
            ELSE all_landmarks'[k] = multi_hand_landmarks'[k]]_tracker_vars

\* C15 witness: both hands of a frame were blended with cached hands, each
\* with the cached hand of its own index, and came out changed.
C15_Witness ==
    /\ Len(all_landmarks) = 2
    /\ cached_before = 2
    /\ all_landmarks[1] # multi_hand_landmarks[1]
    /\ all_landmarks[2] # multi_hand_landmarks[2]
    /\ all_landmarks[1] # all_landmarks[2]
    /\ multi_hand_landmarks[1] # multi_hand_landmarks[2]

\* C16: _smooth_landmarks of a hand against itself returns that hand, and
\* with no previous hand it returns the current hand unchanged.
C16_SelfSmoothingIsIdentity ==
    smooth_call.previous \in {<<>>, smooth_call.current}
        => smooth_call.ret = smooth_call.current

\* C16 witness: _smooth_landmarks was called on a hand and the same hand.
C16_Witness ==
    /\ smooth_call.current \in RawHands
    /\ smooth_call.previous = smooth_call.current
    /\ smooth_call.ret = smooth_call.current

\* C17: after every frame the cache holds exactly the hands returned, as
\* many as the detector reported; after a frame without hands the cache is
\* empty and the next hand comes out unsmoothed.
C17_CacheIsOutput ==
    [][FindHandsStep =>
        /\ tracker_previous_landmarks' = all_landmarks'
        /\ Len(all_landmarks') = Len(multi_hand_landmarks')
        /\ multi_hand_landmarks' = <<>> => tracker_previous_landmarks' = <<>>
        /\ multi_hand_landmarks = <<>>
              => all_landmarks' = multi_hand_landmarks']_tracker_vars

\* C17 witness: a frame without hands emptied a cache of two hands.
C17_Witness ==
    /\ multi_hand_landmarks = <<>>
    /\ cached_before = 2
    /\ tracker_previous_landmarks = <<>>
    /\ all_landmarks = <<>>

(***************************************************************************)
(* Properties of the matcher.                                              *)
(***************************************************************************)
\* the cumulative cost matrix of dynamic time warping, cell (i, j) from 1
RECURSIVE DtwCell(_, _, _, _)
DtwCell(query, template, i, j) ==
    LET d == FrameDistance(query[i], template[j]) IN
    IF i = 1 /\ j = 1 THEN d
    ELSE IF i = 1 THEN d + DtwCell(query, template, 1, j - 1)
    ELSE IF j = 1 THEN d + DtwCell(query, template, i - 1, 1)
    ELSE d + Min(DtwCell(query, template, i - 1, j - 1),
                 Min(DtwCell(query, template, i - 1, j),
                     DtwCell(query, template, i, j - 1)))

\* the stored gestures a call of compare_gesture went through
Compared(i) == recorded_gestures[i].landmarks

\* C18: for a non-empty query and a non-empty template the cost
\* _calculate_gesture_distance returns is the final cell of the cumulative
\* DTW matrix over the sum of the two lengths.
C18_DistanceIsDTW ==
    compared.called /\ compared.query # <<>>
        => \A i \in 1..Len(recorded_gestures) :
              Len(Compared(i)) > 0
                => /\ compared.distances[i].k = "fin"
                   /\ compared.distances[i].den
                        = Len(compared.query) + Len(Compared(i))
                   /\ compared.distances[i].num
                        = DtwCell(compared.query, Compared(i),
                                  Len(compared.query), Len(Compared(i)))

\* C19: a query identical to a stored template has cost 0 against it, and
\* compare_gesture returns the name of that template, or of another stored
\* template that dynamic time warping puts at distance 0 from the query.
C19_IdenticalQueryMatches ==
    compared.called /\ compared.query # <<>>
        => \A i \in 1..Len(recorded_gestures) :
              Compared(i) = compared.query
                => /\ compared.distances[i].k = "fin"
                   /\ compared.distances[i].num = 0
                   /\ \E j \in 1..Len(recorded_gestures) :
                        /\ Len(Compared(j)) > 0
                        /\ DtwCell(compared.query, Compared(j),
                                   Len(compared.query), Len(Compared(j))) = 0
                        /\ compared.ret = recorded_gestures[j].name

\* cost d, in tenths, is below 0.3, and at most 0.3
Below03(d) == d.k = "fin" /\ d.num < 3 * d.den
AtMost03(d) == d.k = "fin" /\ d.num <= 3 * d.den

\* stored gesture i has the smallest cost of the call, and is the first such
Smallest(i) ==
    \A j \in 1..Len(recorded_gestures) :
        ~CostLess(compared.distances[j], compared.distances[i])
FirstSmallest(i) ==
    /\ Smallest(i)
    /\ \A j \in 1..(i - 1) : ~Smallest(j)

\* C20 as stated: on a non-empty query compare_gesture returns the name of a
\* template of smallest cost when that cost is at most 0.3, and no match when
\* nothing is stored or the smallest cost is above 0.3.
C20_MatchesUpToThreshold ==
    compared.called /\ compared.query # <<>>
        => /\ \A i \in 1..Len(recorded_gestures) :
                Smallest(i) /\ AtMost03(compared.distances[i])
                    => \E j \in 1..Len(recorded_gestures) :
                            Smallest(j) /\ compared.ret = recorded_gestures[j].name
           /\ (\A i \in 1..Len(recorded_gestures) :
                    ~AtMost03(compared.distances[i]))
                => compared.ret = None

\* C20 amended: on a non-empty query compare_gesture returns the name of the
\* first stored template of smallest cost when that cost is below 0.3, and
\* no match when nothing is stored or the smallest cost is 0.3 or more.
C20_MatchesBelowThreshold ==
    compared.called /\ compared.query # <<>>
        => /\ \A i \in 1..Len(recorded_gestures) :
                FirstSmallest(i) /\ Below03(compared.distances[i])
                    => compared.ret = recorded_gestures[i].name
           /\ (\A i \in 1..Len(recorded_gestures) :
                    ~Below03(compared.distances[i]))
                => compared.ret = None

\* C20 witness: of two stored gestures the second has the smaller cost, which
\* is above 0 and below 0.3, and its name was returned.
C20_Witness ==
    /\ compared.called
    /\ compared.query # <<>>
    /\ Len(recorded_gestures) = 2
    /\ CostLess(compared.distances[2], compared.distances[1])
    /\ compared.distances[2].num > 0
    /\ compared.ret = recorded_gestures[2].name

\* C21: a stored template without frames has infinite cost against every
\* non-empty query and its name is never returned, whatever else is stored.
C21_EmptyTemplateNeverMatches ==
    compared.called /\ compared.query # <<>>
        => \A i \in 1..Len(recorded_gestures) :
              Compared(i) = <<>>
                => /\ compared.distances[i].k = "inf"
                   /\ compared.ret # recorded_gestures[i].name

\* C21 witness: compare_gesture ran over a template without frames and a
\* recorded one, and matched the recorded one.
C21_Witness ==
    /\ compared.called
    /\ compared.query # <<>>
    /\ Len(recorded_gestures) = 2
    /\ Compared(1) = <<>>
    /\ compared.ret = recorded_gestures[2].name

(***************************************************************************)
(* Properties of the template storage.                                     *)
(***************************************************************************)
\* C22: after GestureRecorder() on the directory, every template that
\* stop_recording saved is stored under its name with the frames it was
\* saved with, in their order.
C22_SavedTemplateReloads ==
    constructed = "ok"
        => \A n \in GestureNames :
              saved_gestures[n] # <<>>
                => \E i \in 1..Len(recorded_gestures) :
                      /\ recorded_gestures[i].name = n
                      /\ recorded_gestures[i].landmarks = saved_gestures[n]

\* C22 witness: a recorder was constructed on a directory holding two saved
\* templates, one of them of two different frames.
C22_Witness ==
    /\ constructed = "ok"
    /\ Len(recorded_gestures) = 2
    /\ saved_gestures["wave"] = <<FrameA, FrameD>>
    /\ saved_gestures["circle"] # <<>>

\* C23: GestureRecorder() does not raise, whatever the template storage
\* holds.
C23_ConstructionNeverRaises == constructed \in {None, "ok"}

(***************************************************************************)
(* Properties of the performance controller (SpecOptimizer, SpecOutput).   *)
(***************************************************************************)

\* C24: in every reachable state frame_scale lies between min_scale and
\* max_scale and skip_frames between 0 and 2, whatever frame_scale the
\* configuration gave.
C24_ScaleAndSkipInBand ==
    /\ min_scale <= frame_scale /\ frame_scale <= max_scale
    /\ 0 <= skip_frames /\ skip_frames <= 2

\* the adjustment ran in the latest call and saw a ratio in the given band
SawSevere ==
    adjusted.ran /\ 10000 * current_fps.len < 6 * target_fps * current_fps.sum
SawMild ==
    /\ adjusted.ran
    /\ 10000 * current_fps.len >= 6 * target_fps * current_fps.sum
    /\ 10000 * current_fps.len < 8 * target_fps * current_fps.sum
SawFast ==
    adjusted.ran /\ 10000 * current_fps.len > 12 * target_fps * current_fps.sum
SawSteady ==
    /\ adjusted.ran
    /\ 10000 * current_fps.len >= 8 * target_fps * current_fps.sum
    /\ 10000 * current_fps.len <= 12 * target_fps * current_fps.sum
\* avg_processing_time * target_fps * 1.2 < 1 second
HasHeadroom ==
    12 * target_fps * avg_processing_time.sum < 10000 * avg_processing_time.len

C26_MildDegrade ==
    SawMild =>
        /\ skip_frames = adjusted.skip_frames
        /\ frame_scale = Max(40, adjusted.frame_scale - 10)

\* C27: an adjustment that sees a ratio above 1.2 with processing-time headroom
\* lowers skip_frames by one and leaves frame_scale alone while skip_frames
\* is above 0; at 0 with frame_scale below 1.0 it raises frame_scale by 0.1,
\* to max_scale at the highest.
C27_Improve ==
    SawFast /\ HasHeadroom =>
        IF adjusted.skip_frames > 0
        THEN /\ skip_frames = adjusted.skip_frames - 1
             /\ frame_scale = adjusted.frame_scale
        ELSE adjusted.frame_scale < 100 =>
                /\ skip_frames = 0
                /\ frame_scale = Min(100, adjusted.frame_scale + 10)
                /\ frame_scale <= max_scale

C27_Witness ==
    /\ SawFast /\ HasHeadroom
    /\ adjusted.skip_frames = 0
    /\ adjusted.frame_scale = 95
    /\ frame_scale = 100

\* C28: an adjustment that sees a ratio from 0.8 to 1.2, or one above 1.2
\* without processing-time headroom, leaves skip_frames and frame_scale alone.
C28_NoChange ==
    SawSteady \/ (SawFast /\ ~HasHeadroom) =>
        /\ skip_frames = adjusted.skip_frames
        /\ frame_scale = adjusted.frame_scale

C28_Witness ==
    /\ SawFast /\ ~HasHeadroom
    /\ frame_scale = 95
    /\ skip_frames = 0

\* C29: every call of optimize_frame raises frame_count by one; the frame is
\* skipped exactly when the new count modulo skip_frames + 1 is not zero; a
\* skipped frame changes nothing of the controller but frame_count, and every
\* other frame is processed.
C29_SkipRule ==
    [][frame_count' # frame_count =>
        /\ frame_count' = frame_count + 1
        /\ IF frame_count' % (skip_frames + 1) # 0
           THEN /\ returned'.path = "skipped"
                /\ UNCHANGED <<frame_times, processing_times, target_fps,
                               frame_scale, skip_frames, use_gpu, current_fps,
                               avg_processing_time, quality_check_counter,
                               output_width, output_height>>
           ELSE returned'.path \in {"processed", "error"}]_all_vars

C29_Witness ==
    /\ returned.path = "skipped"
    /\ skip_frames = 2
    /\ frame_count % 3 = 2

\* C30: the frame a call of optimize_frame returns has the output width and
\* height, whether the frame was skipped, processed or met an error.
C30_OutputSize ==
    [][frame_count' # frame_count =>
        /\ returned'.frame.width = output_width
        /\ returned'.frame.height = output_height]_all_vars

C30_Witness ==
    /\ returned.path = "error"
    /\ returned.input = Frame(1, 1)
    /\ returned.frame = Frame(320, 240)

\* C31: after a call in which the GPU path failed, whatever the failure, the
\* frame handed on came from the CPU path and use_gpu is false, so that no
\* later frame takes the GPU path.
C31_GpuFailureFallsBack ==
    returned.gpu \in {"cv2.error", "error"} /\ returned.input # Frame(1, 1) =>
        /\ returned.by = "cpu"
        /\ ~use_gpu

\* C32: with optimize_frame called from two contexts, at most one of them is
\* inside the locked region, it holds processing_lock, frame_count has not
\* changed since it read it, and frame_count is the number of calls that
\* have left the region: no increment is lost.
C32_Serialized ==
    /\ \A c, d \in Contexts :
            pc[c] = "inside" /\ pc[d] = "inside" => c = d
    /\ \A c \in Contexts :
            pc[c] = "inside" =>
                processing_lock = c /\ read_count[c] = frame_count
    /\ frame_count = completed

C32_Witness ==
    /\ pc[1] = "inside"
    /\ pc[2] = "entering"
    /\ frame_count > 5
    /\ skip_frames > 0

\* C36 as stated: skip_frames and frame_scale change only in a call that
\* completes the fifth processed frame since the last check; the cadence
\* counter stays within 0..4, and a skipped frame or a frame whose
\* processing raised, inside _process_frame or after it, leaves it alone.
C36_RaisedFramesNotCounted ==
    [][/\ quality_check_counter \in 0..4
       /\ quality_check_counter' \in 0..4
       /\ (skip_frames' # skip_frames \/ frame_scale' # frame_scale) =>
            /\ frame_count' = frame_count + 1
            /\ returned'.path = "processed"
            /\ quality_check_counter = 4
            /\ quality_check_counter' = 0
       /\ (/\ frame_count' # frame_count
           /\ \/ returned'.path \in {"skipped", "error"}
              \/ returned'.by = "handler"
              \/ returned'.gpu \in {"cv2.error", "error"}) =>
            quality_check_counter' = quality_check_counter
      ]_all_vars

\* C36 amended: skip_frames and frame_scale change only in a call that
\* completes the fifth counted frame since the last check; the cadence
\* counter stays within 0..4; a skipped frame and a frame on which the
\* handler of optimize_frame ran leave it alone; every other frame, also
\* one whose processing failed inside _process_frame, advances it.
C36_Cadence ==
    [][/\ quality_check_counter \in 0..4
       /\ quality_check_counter' \in 0..4
       /\ (skip_frames' # skip_frames \/ frame_scale' # frame_scale) =>
            /\ frame_count' = frame_count + 1
            /\ returned'.path = "processed"
            /\ quality_check_counter = 4
            /\ quality_check_counter' = 0
       /\ (frame_count' # frame_count
            /\ returned'.path \in {"skipped", "error"}) =>
            quality_check_counter' = quality_check_counter
       /\ (frame_count' # frame_count /\ returned'.path = "processed") =>
            quality_check_counter' = (quality_check_counter + 1) % 5
      ]_all_vars

C36_Witness ==
    /\ adjusted.ran
    /\ returned.gpu = "error"
    /\ returned.by = "handler"
    /\ adjusted.skip_frames = 1
    /\ skip_frames = 2

\* the window is full of equal samples
FullSteadyWindow ==
    /\ Len(frame_times) = 30
    /\ \A i \in 1..Len(frame_times) : frame_times[i] = frame_times[1]

Floor == skip_frames = 2 /\ frame_scale = 40

StoredUnder(gestures, n) ==
    IF \E i \in 1..Len(gestures) : gestures[i].name = n
    THEN [stored |-> TRUE,
          landmarks |->
            gestures[CHOOSE i \in 1..Len(gestures) : gestures[i].name = n]
                .landmarks]
    ELSE [stored |-> FALSE, landmarks |-> <<>>]

\* stop_recording is completing a recording under the name
Completes(n) == recording /\ gesture_name = n /\ Len(current_gesture) > 0

C39_StoppedAfterStop ==
    stopped \in {"True", "False"} => ~recording

(***************************************************************************)
(* Properties of the frame loop (SpecLoop).                                *)
(***************************************************************************)

\* C34: after a camera frame without a hand the classifier holds no pinch
\* distance and no held pinch, so that the next hand frame is a baseline.
C34_NoHandResets ==
    camera_frame = "empty" =>
        /\ last_pinch_distance = NoDistance
        /\ pinch_state = FALSE

(***************************************************************************)
(* Properties of the configuration (SpecConfig).                           *)
(***************************************************************************)

\* the values the core can work with: 1 to 120 frames a second, a frame
\* scale from min_scale to max_scale, a pinch threshold between 0 and 1
InRange(key, x) ==
    IF key = "target_fps" THEN x \in 1..120
    ELSE IF key = "frame_scale" THEN x \in 40..100
    ELSE x \in 1..99

\* C33: a value outside its range is never taken over: the update or load
\* that was given one is not accepted, and target_fps, frame_scale and
\* pinch_threshold in the settings are always inside their ranges.
C33_OnlyValidSettings ==
    /\ \A key \in Knobs : InRange(key, settings[key])
    /\ (\E key \in Knobs :
            /\ config_outcome.given[key] # Absent
            /\ ~InRange(key, config_outcome.given[key]))
        => ~config_outcome.accepted

(***************************************************************************)
(* Properties of the pinch latch (Spec).                                   *)
(***************************************************************************)
\* n >= th / 100 for a threshold th >= 0 in hundredths
AtOrAbove(n, th) ==
    \/ n.k = "inf"
    \/ n.k = "fin" /\ 10000 * n.num2 >= th * th * n.den2

\* a call of update that clears the held flag as the text lists them: a
\* no-hand frame, a pinch-stage exception on a malformed hand, or a hand
\* evaluated with n at or above the pinch threshold
ListedClearingStep ==
    /\ UpdateStep
    /\ \/ last_frame' = "empty"
       \/ /\ gesture_cooldown = 0
          /\ \/ MalformedStep
             \/ /\ EvaluatedStep
                /\ AtOrAbove(NormalizedDistance(current_landmarks'),
                             gesture_thresholds["pinch"])

\* C38: 'pinch' is returned only with the held flag clear, and sets it; the
\* flag is cleared only by a call of update on a no-hand frame, on a hand
\* evaluated with n at or above the pinch threshold, or by a pinch-stage
\* exception, so one such call lies between any two 'pinch' emissions; a
\* frame of the cooldown is not evaluated: it returns nothing and leaves the
\* flag as it was, whatever its hand does.
C38_PinchLatched ==
    [][/\ (UpdateStep /\ result' = "pinch" => ~pinch_state /\ pinch_state')
       /\ (pinch_state /\ ~pinch_state' => ListedClearingStep)
       /\ (HandStep /\ gesture_cooldown > 0
              => pinch_state' = pinch_state /\ result' = None)]_vars

=============================================================================
